---------------------------- MODULE Spec2Model ----------------------------
(***************************************************************************)
(* ZKLR: zero-knowledge logistic regression (main.go, utils/).             *)
(*                                                                         *)
(* The four gnark circuits (Linear, Sigmoid, AccuracyChunk, Aggregator)    *)
(* are modelled by what their Define methods compute over the scalar       *)
(* field; main() is modelled as a state machine over its stages.           *)
(*                                                                         *)
(* Scale.  TLC computes with 32-bit integers, so the BN254 scalar field    *)
(* and the fixed-point precisions are scaled down: the field is Z_p for a  *)
(* small prime p, Q32 becomes Q4, the lookup input Q10 becomes Q2 and the  *)
(* lookup output Q16 becomes Q8.  Every relation the circuits rest on is   *)
(* kept: 2^Precision and 2^(Precision-inputPrecision) are invertible mod   *)
(* p, api.Div is multiplication by the modular inverse, signs are read     *)
(* off the field midpoint, and every encoded magnitude that occurs is      *)
(* below p/2.  ChunkSize, numChunks, MaxInput, MarginSteps and the         *)
(* aggregator threshold keep their values.                                 *)
(***************************************************************************)
EXTENDS Integers, Sequences, FiniteSets, TLC

(***************************************************************************)
(* Program constants                                                       *)
(***************************************************************************)
\* ecc.BN254.ScalarField(), scaled to a 16-bit prime (products of two field
\* elements stay below 2^31)
FieldModulus == 46337
\* const Precision = 32, scaled
Precision == 4
\* const inputPrecision = 10, scaled
inputPrecision == 2
\* const outputPrecision = 16, scaled
outputPrecision == 8
MaxInput == 8
MarginSteps == 8
ChunkSize == 25
numChunks == 4
\* minCorrect := big.NewInt(97)
minCorrect == 97

RECURSIVE Pow2(_)
Pow2(n) == IF n = 0 THEN 1 ELSE 2 * Pow2(n - 1)

\* var scalingFactor = new(big.Int).Lsh(big.NewInt(1), Precision)
scalingFactor == Pow2(Precision)
\* shift := new(big.Int).Lsh(big.NewInt(1), Precision-inputPrecision)
shift == Pow2(Precision - inputPrecision)
\* fieldMid := new(big.Int).Rsh(ecc.BN254.ScalarField(), 1)
fieldMid == FieldModulus \div 2
\* oneOut := big.NewInt(1 << outputPrecision)
oneOut == Pow2(outputPrecision)
\* threshold := big.NewInt(1 << (outputPrecision - 1))
threshold == Pow2(outputPrecision - 1)
\* maxTableIndex := big.NewInt(MaxInput << inputPrecision)
maxTableIndex == MaxInput * Pow2(inputPrecision)

Field == 0 .. (FieldModulus - 1)

(***************************************************************************)
(* frontend.API over the scalar field                                      *)
(***************************************************************************)
\* a big.Int assigned to a frontend.Variable is reduced modulo the field
ToField(n) == n % FieldModulus

\* the signed integer a field element stands for (above the midpoint: negative)
Signed(a) == IF a > fieldMid THEN a - FieldModulus ELSE a

Add(a, b) == (a + b) % FieldModulus
Sub(a, b) == (a - b + FieldModulus) % FieldModulus
Neg(a) == (FieldModulus - a) % FieldModulus
Mul(a, b) == (a * b) % FieldModulus

RECURSIVE FieldPow(_, _)
FieldPow(a, e) ==
  IF e = 0 THEN 1
  ELSE LET h == FieldPow(a, e \div 2)
           s == Mul(h, h)
       IN IF e % 2 = 1 THEN Mul(s, a) ELSE s

\* the modular inverse, a^(p-2)
Inverse(a) == FieldPow(a, FieldModulus - 2)

\* the constant divisors of the circuits and their inverses, computed once
InverseOf == [b \in {scalingFactor, shift} |-> Inverse(b)]

\* api.Div by a constant: field division, i1 * i2^-1 (no truncation)
Div(a, b) == Mul(a, InverseOf[b])

\* api.Cmp: 1 if a > b, 0 if a = b, -1 if a < b, on the canonical representatives
Cmp(a, b) == IF a > b THEN 1 ELSE IF a = b THEN 0 ELSE ToField(-1)

IsZero(a) == IF a = 0 THEN 1 ELSE 0

Select(c, x, y) == IF c = 1 THEN x ELSE y

(***************************************************************************)
(* Fixed point                                                             *)
(***************************************************************************)
\* FixedPoint.Mul: api.Div(api.Mul(a, b), scalingFactor)
FixedMul(a, b) == Div(Mul(a, b), scalingFactor)

\* FixedPoint.Add
FixedAdd(a, b) == Add(a, b)

(***************************************************************************)
(* Circuit 1: LinearCircuit                                                *)
(***************************************************************************)
\* LinearCircuit.Define: z = w.Mul(x).Add(b); AssertIsEqual(z.Val, circuit.Z)
LinearDefine(a) ==
  LET wx == FixedMul(a.W, a.X)
      z == FixedAdd(wx, a.B)
  IN [done |-> TRUE, z |-> z, satisfied |-> (z = a.Z)]

(***************************************************************************)
(* Circuit 2: SigmoidCircuit                                               *)
(***************************************************************************)
\* the table Define inserts: entry i is int64(sigmoid(i / 2^inputPrecision) *
\* 2^outputPrecision), i = 0 .. MaxInput * 2^inputPrecision (here sigmoid(i/4)*256,
\* truncated); entry i is element i+1 of the tuple
SigmoidTable ==
  << 128, 143, 159, 173, 187, 198, 209, 218, 225, 231, 236,
     240, 243, 246, 248, 250, 251, 252, 253, 253, 254, 254,
     254, 255, 255, 255, 255, 255, 255, 255, 255, 255, 255 >>

\* logderivlookup.Table.Lookup: defined on the inserted indices only
InTable(i) == i + 1 \in DOMAIN SigmoidTable
Lookup(i) == IF InTable(i) THEN SigmoidTable[i + 1] ELSE 0

\* a bug: the symmetry sigmoid(-x) = 1 - sigmoid(x) is not applied
SigmoidDefineNoSymmetry(a) ==
  LET zIn == Div(a.Z, shift)
      cmpMid == Cmp(zIn, fieldMid)
      isNeg == IsZero(Sub(1, cmpMid))
      absZ == Select(isNeg, Neg(zIn), zIn)
      cmpMax == Cmp(absZ, maxTableIndex)
      isSat == IsZero(Sub(1, cmpMax))
      clamped == Select(isSat, maxTableIndex, absZ)
      lut == Lookup(clamped)
      sigmoid == lut
      cmpThresh == Cmp(sigmoid, threshold)
      isLess == IsZero(Add(cmpThresh, 1))
      prediction == Sub(1, isLess)
  IN [done |-> TRUE, zIn |-> zIn, isNeg |-> isNeg, absZ |-> absZ,
      clamped |-> clamped, inTable |-> InTable(clamped), sigmoid |-> sigmoid,
      prediction |-> prediction,
      satisfied |-> (InTable(clamped) /\ prediction = a.Label)]

\* a bug: the magnitude is looked up without saturation
SigmoidDefineNoClamp(a) ==
  LET zIn == Div(a.Z, shift)
      cmpMid == Cmp(zIn, fieldMid)
      isNeg == IsZero(Sub(1, cmpMid))
      absZ == Select(isNeg, Neg(zIn), zIn)
      cmpMax == Cmp(absZ, maxTableIndex)
      isSat == IsZero(Sub(1, cmpMax))
      clamped == absZ
      lut == Lookup(clamped)
      sigmoid == Select(isNeg, Sub(oneOut, lut), lut)
      cmpThresh == Cmp(sigmoid, threshold)
      isLess == IsZero(Add(cmpThresh, 1))
      prediction == Sub(1, isLess)
  IN [done |-> TRUE, zIn |-> zIn, isNeg |-> isNeg, absZ |-> absZ,
      clamped |-> clamped, inTable |-> InTable(clamped), sigmoid |-> sigmoid,
      prediction |-> prediction,
      satisfied |-> (InTable(clamped) /\ prediction = a.Label)]

\* SigmoidCircuit.Define: rescale, sign by the field midpoint, absolute value,
\* saturation, lookup, symmetry, threshold, AssertIsEqual(prediction, Label)
SigmoidDefine(a) ==
  LET zIn == Div(a.Z, shift)
      cmpMid == Cmp(zIn, fieldMid)
      isNeg == IsZero(Sub(1, cmpMid))
      absZ == Select(isNeg, Neg(zIn), zIn)
      cmpMax == Cmp(absZ, maxTableIndex)
      isSat == IsZero(Sub(1, cmpMax))
      clamped == Select(isSat, maxTableIndex, absZ)
      lut == Lookup(clamped)
      sigmoid == Select(isNeg, Sub(oneOut, lut), lut)
      cmpThresh == Cmp(sigmoid, threshold)
      isLess == IsZero(Add(cmpThresh, 1))
      prediction == Sub(1, isLess)
  IN [done |-> TRUE, zIn |-> zIn, isNeg |-> isNeg, absZ |-> absZ,
      clamped |-> clamped, inTable |-> InTable(clamped), sigmoid |-> sigmoid,
      prediction |-> prediction,
      satisfied |-> (InTable(clamped) /\ prediction = a.Label)]

(***************************************************************************)
(* Circuit 3A: AccuracyChunkCircuit                                        *)
(***************************************************************************)
\* the wires AccuracyChunkCircuit.Define derives from z and Label[i] (lines
\* 164-178): the sign prediction, the margin test and the term added to
\* sumCorrect
ChunkWires(z, Label) ==
  LET cmpMid == Cmp(z, fieldMid)
      isNegative == IsZero(Sub(1, cmpMid))
      prediction == Sub(1, isNegative)
      zIn == Div(z, shift)
      cmpMidIn == Cmp(zIn, fieldMid)
      isNegIn == IsZero(Sub(1, cmpMidIn))
      absZIn == Select(isNegIn, Neg(zIn), zIn)
      cmpMargin == Cmp(absZIn, MarginSteps)
      isLessMargin == IsZero(Add(cmpMargin, 1))
      eligible == Sub(1, isLessMargin)
      diff == Sub(prediction, Label)
      equal == IsZero(diff)
  IN [z |-> z, prediction |-> prediction, zIn |-> zIn, isNegIn |-> isNegIn,
      absZIn |-> absZIn, eligible |-> eligible, equal |-> equal,
      correct |-> Mul(eligible, equal)]

\* one iteration of the loop of AccuracyChunkCircuit.Define (lines 160-178):
\* z = w.Mul(x).Add(b), then the wires of sample i
ChunkSample(W, B, X, Label) == ChunkWires(FixedAdd(FixedMul(W, X), B), Label)

\* the public variables of AccuracyChunkCircuit are X and Label; W and B are
\* private; sumCorrect is a local of Define, neither a variable of the
\* circuit nor asserted.  Define makes no assertion, so every assignment
\* satisfies it, and the proof is verified against X and Label alone: whether
\* it is accepted does not depend on the count reported beside it.
ChunkProofAccepts(reportedCount) == TRUE

(***************************************************************************)
(* Circuit 4: AggregatorCircuit                                            *)
(***************************************************************************)
\* a bug: the comparison rejects a total equal to the threshold
AggregatorDefineStrict(a) ==
  LET totalCorrect == Add(Add(Add(a.Count1, a.Count2), a.Count3), a.Count4)
      cmp == Cmp(totalCorrect, minCorrect)
      isGreater == IsZero(Sub(1, cmp))
  IN [done |-> TRUE, totalCorrect |-> totalCorrect, satisfied |-> (isGreater = 1)]

\* AggregatorCircuit.Define: the wires and whether AssertIsEqual(isLess, 0) holds
AggregatorDefine(a) ==
  LET totalCorrect == Add(Add(Add(a.Count1, a.Count2), a.Count3), a.Count4)
      cmp == Cmp(totalCorrect, minCorrect)
      isLess == IsZero(Add(cmp, 1))
  IN [done |-> TRUE, totalCorrect |-> totalCorrect, satisfied |-> (isLess = 0)]

(***************************************************************************)
(* Proving backend: compile, setup, prove, verify                          *)
(***************************************************************************)
Circuits == <<"Linear", "Sigmoid", "AccuracyChunk", "Aggregator">>
CircuitSet == {"Linear", "Sigmoid", "AccuracyChunk", "Aggregator"}

\* GetNbConstraints of the compiled circuits (README, System Performance)
NbConstraints ==
  [c \in CircuitSet |->
     CASE c = "Linear" -> 3
       [] c = "Sigmoid" -> 58019
       [] c = "AccuracyChunk" -> 404074
       [] OTHER -> 5388]

NoArtifacts ==
  [ready |-> FALSE,
   ccs |-> [circuit |-> "none", nbConstraints |-> 0],
   pk |-> [circuit |-> "none", key |-> 0],
   vk |-> [circuit |-> "none", key |-> 0]]

\* frontend.Compile, unsafekzg.NewSRS and plonk.Setup for circuit c; key names
\* the toxic waste NewSRS drew, fresh at every setup
CompileAndSetup(c, key) ==
  [ready |-> TRUE,
   ccs |-> [circuit |-> c, nbConstraints |-> NbConstraints[c]],
   pk |-> [circuit |-> c, key |-> key],
   vk |-> [circuit |-> c, key |-> key]]

\* plonk.Prove(ccs, pk, witness) on a satisfying witness: the proof is bound to
\* the circuit, the key and the public witness
Prove(ccs, pk, public) == [circuit |-> ccs.circuit, key |-> pk.key, public |-> public]

\* plonk.Verify(proof, vk, publicWitness)
Verify(proof, vk, public) ==
  /\ proof.circuit = vk.circuit
  /\ proof.key = vk.key
  /\ proof.public = public

(***************************************************************************)
(* CircuitCache: saveCircuitData, loadCircuitData                          *)
(***************************************************************************)
\* a cache file: the sections written to it so far, and whether a partly
\* written section trails them
Missing == [exists |-> FALSE, sections |-> <<>>, partial |-> FALSE]

\* the three WriteTo calls of saveCircuitData, in order
SaveSections(d) ==
  << [kind |-> "ccs", body |-> d.ccs],
     [kind |-> "pk", body |-> d.pk],
     [kind |-> "vk", body |-> d.vk] >>

\* saveCircuitData: os.Create truncates the file; ccs, pk and vk are written in
\* turn and the first error is returned.  createFails: os.Create failed (the
\* file is left as it was); written: the sections written whole before a
\* WriteTo failed (3: none failed); partial: the failing WriteTo left a
\* partly written section
saveCircuitData(old, d, createFails, written, partial) ==
  IF createFails THEN [file |-> old, err |-> TRUE]
  ELSE [file |-> [exists |-> TRUE,
                  sections |-> SubSeq(SaveSections(d), 1, written),
                  partial |-> (partial /\ written < 3)],
        err |-> written < 3]

\* the file a crash can leave when the operating system goes down during
\* saveCircuitData, which neither syncs the file nor writes it aside and
\* renames it: the file has its full length, and the blocks of section k (the
\* proving or the verifying key) that had not reached the disk read as zeros
TornFile(d, k) ==
  [exists |-> TRUE,
   sections |-> [SaveSections(d) EXCEPT ![k].body.key = 0],
   partial |-> FALSE]

\* X.ReadFrom(file) for the section at position pos: it must be there, whole,
\* and of the kind read
ReadFrom(file, pos, kind) ==
  pos <= Len(file.sections) /\ file.sections[pos].kind = kind

\* a bug: the proving key is read before the constraint system
loadCircuitDataSwapped(file, ioErr) ==
  IF ~file.exists \/ ioErr THEN [err |-> TRUE, data |-> NoArtifacts]
  ELSE IF ~ReadFrom(file, 1, "pk") THEN [err |-> TRUE, data |-> NoArtifacts]
  ELSE IF ~ReadFrom(file, 2, "ccs") THEN [err |-> TRUE, data |-> NoArtifacts]
  ELSE IF ~ReadFrom(file, 3, "vk") THEN [err |-> TRUE, data |-> NoArtifacts]
  ELSE [err |-> FALSE,
        data |-> [ready |-> TRUE, ccs |-> file.sections[2].body,
                  pk |-> file.sections[1].body, vk |-> file.sections[3].body]]

\* loadCircuitData: os.Open, then ccs, pk and vk are read in turn; the first
\* error returns nil artifacts.  ioErr: os.Open or a read failed
loadCircuitData(file, ioErr) ==
  IF ~file.exists \/ ioErr THEN [err |-> TRUE, data |-> NoArtifacts]
  ELSE IF ~ReadFrom(file, 1, "ccs") THEN [err |-> TRUE, data |-> NoArtifacts]
  ELSE IF ~ReadFrom(file, 2, "pk") THEN [err |-> TRUE, data |-> NoArtifacts]
  ELSE IF ~ReadFrom(file, 3, "vk") THEN [err |-> TRUE, data |-> NoArtifacts]
  ELSE [err |-> FALSE,
        data |-> [ready |-> TRUE, ccs |-> file.sections[1].body,
                  pk |-> file.sections[2].body, vk |-> file.sections[3].body]]

(***************************************************************************)
(* main: the values of one sample                                          *)
(***************************************************************************)
\* newScaled(float64(v)) for an integer v: v * 2^Precision, exactly
newScaled(v) == v * scalingFactor

\* z_scaled: new(big.Int).Mul, new(big.Int).Div by scalingFactor (big.Int.Div is
\* Euclidean: the floor, for a positive divisor), new(big.Int).Add
LinearZ(w, x, b) == ((w * x) \div scalingFactor) + b

\* the model's own prediction from the sign of Z: 1 if Z >= 0, else 0
SignPrediction(z) == IF z >= 0 THEN 1 ELSE 0

\* lines 706-709: zf := W*float64(marks[i]) + B; pred := 1 if zf >= 0;
\* 1 if pred == labels[i].  W and B are taken on the fixed-point grid
\* (W = w / 2^Precision), where zf >= 0 exactly when w*mark + b >= 0
OffChainCorrect(w, b, mark, label) ==
  LET pred == IF w * mark + b >= 0 THEN 1 ELSE 0
  IN IF pred = label THEN 1 ELSE 0

(***************************************************************************)
(* State                                                                   *)
(***************************************************************************)
VARIABLES
  \* one circuit on one witness
  sample,       \* the sample at hand: encoded W, B, X, its label
  circuit,      \* the circuit whose witness is being solved
  assignment,   \* the witness: the values assigned to the circuit's variables
  solved,       \* what Define computed on the assignment
  chunk,        \* the chunk at hand: loop index, sumCorrect (in-circuit), count (off-circuit)
  \* main
  pc,           \* where main is
  cur,          \* the circuit being set up
  run,          \* the number of the process run
  faults,       \* environment failures so far (I/O errors, backend errors, kills)
  fs,           \* the cache files, by circuit
  mem,          \* the SCS, PK, VK variables of main, by circuit
  cached,       \* by circuit: main loaded it from its cache file
  nextKey,      \* the next setup's randomness
  compiles,     \* by circuit: compile+setup attempts of this run
  saves,        \* by circuit: saveCircuitData calls of this run
  lastSaved,    \* by circuit: the artifacts of the last completed save
  marks,        \* the dataset
  labels,
  results,      \* by sample, in order: how its loop iteration ended
  validProofs,
  proofGenCount,
  verifyIdx,    \* pairs of validProofs the verification loop has visited
  successCount,
  chunkCounts,  \* the counts of the chunks proved so far, in order
  report        \* what main printed last about the accuracy claim

hvars == <<sample, circuit, assignment, solved, chunk>>
pvars == <<pc, cur, run, faults, fs, mem, cached, nextKey, compiles, saves,
           lastSaved, marks, labels, results, validProofs, proofGenCount,
           verifyIdx, successCount, chunkCounts, report>>
vars == <<hvars, pvars>>

Unsolved == [done |-> FALSE]
NoSample == [w |-> 0, b |-> 0, x |-> 0, label |-> 0]
NoAssignment == [Z |-> 0]
NoChunk == [i |-> 0, sumCorrect |-> 0, eligible |-> 0, count |-> 0, proved |-> FALSE]

\* main is not running: the circuit is exercised on its own
PipelineIdle ==
  /\ pc = "idle" /\ cur = "none" /\ run = 0 /\ faults = 0
  /\ fs = [c \in CircuitSet |-> Missing]
  /\ mem = [c \in CircuitSet |-> NoArtifacts]
  /\ cached = [c \in CircuitSet |-> FALSE]
  /\ nextKey = 1
  /\ compiles = [c \in CircuitSet |-> 0]
  /\ saves = [c \in CircuitSet |-> 0]
  /\ lastSaved = [c \in CircuitSet |-> NoArtifacts]
  /\ marks = <<>> /\ labels = <<>>
  /\ results = <<>> /\ validProofs = <<>>
  /\ proofGenCount = 0 /\ verifyIdx = 0 /\ successCount = 0
  /\ chunkCounts = <<>> /\ report = "none"

HarnessIdle ==
  /\ sample = NoSample /\ circuit = "none" /\ assignment = NoAssignment
  /\ solved = Unsolved /\ chunk = NoChunk

(***************************************************************************)
(* AggregatorCircuit on every four chunk counts                            *)
(***************************************************************************)
\* a chunk count: chunkCounts[k] is a number of samples of one chunk
Counts == 0 .. ChunkSize

InitAgg ==
  /\ PipelineIdle
  /\ chunk = NoChunk
  /\ sample = NoSample
  /\ circuit = "Aggregator"
  /\ assignment \in [Count1 : Counts, Count2 : Counts, Count3 : Counts, Count4 : Counts]
  /\ solved = Unsolved

\* frontend.NewWitness(&aggWitness) and plonk.Prove: the solver runs Define
SolveAggregator ==
  /\ circuit = "Aggregator"
  /\ ~solved.done
  /\ solved' = AggregatorDefine(assignment)
  /\ UNCHANGED <<sample, circuit, assignment, chunk, pvars>>

NextAgg == SolveAggregator

SpecAgg == InitAgg /\ [][NextAgg]_vars

CountSum == assignment.Count1 + assignment.Count2 + assignment.Count3 + assignment.Count4

\* C1: the aggregator is satisfiable for four counts exactly when their sum
\* is at least 97 (96 is rejected, 97 is accepted).
C1_AggregatorThreshold ==
  (circuit = "Aggregator" /\ solved.done) => (solved.satisfied <=> CountSum >= 97)

C1_Witness ==
  circuit = "Aggregator" /\ solved.done /\ CountSum = 97 /\ solved.satisfied

(***************************************************************************)
(* One sample through the linear and the sigmoid witness (main's loop body) *)
(***************************************************************************)
MaxMark == 100
MaxFrac == 1

\* encoded (W, B): the first is main's W := -0.85735312, B := 50.94705066 at
\* this scale; the others stand for other trained models
Models == { <<-13, 815>>, <<0, 0>>, <<-1, 60>>, <<2, -117>>, <<3, 8>> }

Marks == 0 .. MaxMark
\* encoded features: an integer mark, plus a fraction of a mark
XRaw == { newScaled(m) + f : m \in Marks, f \in 0 .. MaxFrac }

InitSample ==
  /\ PipelineIdle
  /\ chunk = NoChunk
  /\ sample \in { [w |-> m[1], b |-> m[2], x |-> x, label |-> l] :
                    m \in Models, x \in XRaw, l \in {0, 1} }
  /\ circuit = "none"
  /\ assignment = NoAssignment
  /\ solved = Unsolved

\* lines 509-522: the linear witness with the Z computed off-circuit
LinearWitness ==
  /\ circuit = "none"
  /\ circuit' = "Linear"
  /\ assignment' = [W |-> ToField(sample.w), B |-> ToField(sample.b),
                    X |-> ToField(sample.x),
                    Z |-> ToField(LinearZ(sample.w, sample.x, sample.b))]
  /\ solved' = Unsolved
  /\ UNCHANGED <<sample, chunk, pvars>>

\* plonk.Prove(linearSCS, linearPK, linearWitnessFull): the solver runs Define
SolveLinear ==
  /\ circuit = "Linear"
  /\ ~solved.done
  /\ solved' = LinearDefine(assignment)
  /\ UNCHANGED <<sample, circuit, assignment, chunk, pvars>>

\* lines 545-551, reached only when the linear proof was produced
SigmoidWitness ==
  /\ circuit = "Linear"
  /\ solved.done
  /\ solved.satisfied
  /\ circuit' = "Sigmoid"
  /\ assignment' = [Z |-> ToField(LinearZ(sample.w, sample.x, sample.b)),
                    Label |-> ToField(sample.label)]
  /\ solved' = Unsolved
  /\ UNCHANGED <<sample, chunk, pvars>>

\* plonk.Prove(sigmoidSCS, sigmoidPK, sigmoidWitnessFull)
SolveSigmoid ==
  /\ circuit = "Sigmoid"
  /\ ~solved.done
  /\ solved' = SigmoidDefine(assignment)
  /\ UNCHANGED <<sample, circuit, assignment, chunk, pvars>>

NextSample == LinearWitness \/ SolveLinear \/ SigmoidWitness \/ SolveSigmoid

SpecSample == InitSample /\ [][NextSample]_vars

(***************************************************************************)
(* SigmoidCircuit on every public input                                    *)
(***************************************************************************)
InitSigmoid ==
  /\ PipelineIdle
  /\ chunk = NoChunk
  /\ sample = NoSample
  /\ circuit = "Sigmoid"
  /\ assignment \in [Z : Field, Label : {0, 1}]
  /\ solved = Unsolved

NextSigmoid == SolveSigmoid

SpecSigmoid == InitSigmoid /\ [][NextSigmoid]_vars

(***************************************************************************)
(* Claims about the linear and the sigmoid circuit                         *)
(***************************************************************************)
\* the Z main computed for the sample at hand
SampleZ == LinearZ(sample.w, sample.x, sample.b)

\* the sample's feature is an integer mark, as loadTestData yields
IsMark(x) == x % scalingFactor = 0

DirectPrediction(z) == IF z >= 0 THEN 1 ELSE 0

\* Z is on the lookup table's grid: a multiple of shift, |Z| / shift in 0 .. maxTableIndex
OnGrid(z) ==
  LET s == Signed(z)
  IN  s % shift = 0 /\ (s \div shift) \in (-maxTableIndex) .. maxTableIndex

\* C4: for every Z on the table's grid the prediction SigmoidCircuit computes
\* is 1 exactly when sigmoid(decode(Z)) >= 0.5, and 0 otherwise.
C4_GridPrediction ==
  (circuit = "Sigmoid" /\ solved.done /\ OnGrid(assignment.Z)) =>
     solved.prediction = DirectPrediction(Signed(assignment.Z))

C4_Witness ==
  /\ circuit = "Sigmoid" /\ solved.done
  /\ OnGrid(assignment.Z) /\ Signed(assignment.Z) < 0
  /\ solved.isNeg = 1 /\ solved.prediction = 0

\* C5: for every sample of the pipeline, the sigmoid constraints on the
\* pipeline's own Z and the label are unsatisfied exactly when the sign-based
\* prediction (1 if Z >= 0, else 0) differs from the label.
C5_InfeasibleIffDisagree ==
  (circuit = "Sigmoid" /\ solved.done /\ IsMark(sample.x)) =>
     (solved.satisfied <=> SignPrediction(SampleZ) = sample.label)

\* C19: the index SigmoidCircuit.Define looks up is within the table's
\* domain 0 .. maxTableIndex for every public input Z of the field.
C19_LookupIndexInTable ==
  (circuit = "Sigmoid" /\ solved.done) =>
     (solved.clamped \in 0 .. maxTableIndex /\ solved.inTable)

\* Z rescales to the field midpoint, the largest magnitude there is
C19_Witness ==
  /\ circuit = "Sigmoid" /\ solved.done
  /\ solved.zIn = fieldMid /\ solved.absZ > maxTableIndex
  /\ solved.clamped = maxTableIndex

(***************************************************************************)
(* One chunk: the chunk witness, its proof and the off-circuit count       *)
(* (main's chunk loop body, lines 682-714)                                 *)
(***************************************************************************)
\* the marks a chunk draws from: the band around the models' decision
\* boundaries, where eligible and ineligible samples of both signs occur
ChunkMarkLo == 56
ChunkMarkHi == 70
ChunkMarks == ChunkMarkLo .. ChunkMarkHi

InitChunk ==
  /\ PipelineIdle
  /\ sample \in { [w |-> m[1], b |-> m[2], x |-> 0, label |-> 0] : m \in Models }
  /\ circuit = "AccuracyChunk"
  /\ assignment = [W |-> ToField(sample.w), B |-> ToField(sample.b)]
  /\ solved = Unsolved
  /\ chunk = NoChunk

\* sample i of the chunk: marks[startIdx+i] and labels[startIdx+i] are drawn
\* when first read; the witness gets X[i] and Label[i] (lines 689-690),
\* Define adds the sample's term to sumCorrect (line 178) and the off-circuit
\* loop adds its own to count (lines 706-709)
ChunkStep ==
  /\ circuit = "AccuracyChunk"
  /\ chunk.i < ChunkSize
  /\ \E mark \in ChunkMarks, label \in {0, 1} :
       LET wires == ChunkSample(assignment.W, assignment.B,
                                ToField(newScaled(mark)), ToField(label))
       IN chunk' = [chunk EXCEPT
                      !.i = @ + 1,
                      !.sumCorrect = Add(@, wires.correct),
                      !.eligible = @ + wires.eligible,
                      !.count = @ + OffChainCorrect(sample.w, sample.b, mark, label)]
  /\ UNCHANGED <<sample, circuit, assignment, solved, pvars>>

\* plonk.Prove(chunkSCS, chunkPK, chunkFull) returns the proof; chunkCounts[chunkIdx] = count
ChunkProved ==
  /\ circuit = "AccuracyChunk"
  /\ chunk.i = ChunkSize
  /\ ~chunk.proved
  /\ chunk' = [chunk EXCEPT !.proved = TRUE]
  /\ solved' = [done |-> TRUE, satisfied |-> TRUE]
  /\ UNCHANGED <<sample, circuit, assignment, pvars>>

NextChunk == ChunkStep \/ ChunkProved

SpecChunk == InitChunk /\ [][NextChunk]_vars

C6_ProofFixesCount ==
  (circuit = "AccuracyChunk" /\ chunk.proved) =>
     { c \in Counts : ChunkProofAccepts(c) } = { chunk.sumCorrect }

(***************************************************************************)
(* One sample through AccuracyChunkCircuit.Define (one iteration of its     *)
(* loop, lines 160-178)                                                     *)
(***************************************************************************)
InitChunkSample ==
  /\ PipelineIdle
  /\ chunk = NoChunk
  /\ sample \in { [w |-> m[1], b |-> m[2], x |-> x, label |-> l] :
                    m \in Models, x \in XRaw, l \in {0, 1} }
  /\ circuit = "AccuracyChunk"
  /\ assignment = [W |-> ToField(sample.w), B |-> ToField(sample.b),
                   X |-> ToField(sample.x), Label |-> ToField(sample.label)]
  /\ solved = Unsolved

\* the solver runs the loop body on the sample: Define asserts nothing, so the
\* assignment is satisfying whatever the wires are
SolveChunkSample ==
  /\ circuit = "AccuracyChunk"
  /\ chunk = NoChunk
  /\ ~solved.done
  /\ LET wires == ChunkSample(assignment.W, assignment.B, assignment.X,
                              assignment.Label)
     IN solved' = [done |-> TRUE, satisfied |-> TRUE, z |-> wires.z,
                   prediction |-> wires.prediction, zIn |-> wires.zIn,
                   absZIn |-> wires.absZIn, eligible |-> wires.eligible,
                   equal |-> wires.equal, correct |-> wires.correct]
  /\ UNCHANGED <<sample, circuit, assignment, chunk, pvars>>

NextChunkSample == SolveChunkSample

SpecChunkSample == InitChunkSample /\ [][NextChunkSample]_vars

\* the magnitude, in steps of 2^-inputPrecision, of the signed value the wire
\* z stands for
Abs(n) == IF n < 0 THEN -n ELSE n
MagnitudeSteps(z) == Abs(Signed(z)) \div shift

\* C21: a sample whose Z, rescaled to steps of 2^-inputPrecision, has a
\* magnitude below the margin of 8 steps adds 0 to the count whatever its
\* label; a sample with magnitude of 8 steps or more adds 1 exactly when the
\* sign prediction (1 if Z >= 0, else 0) equals its label, and 0 otherwise.
C21_MarginGatesCount ==
  (circuit = "AccuracyChunk" /\ solved.done) =>
     /\ solved.correct \in {0, 1}
     /\ MagnitudeSteps(solved.z) < MarginSteps => solved.correct = 0
     /\ MagnitudeSteps(solved.z) >= MarginSteps =>
          (solved.correct = 1 <=>
             SignPrediction(Signed(solved.z)) = sample.label)

\* C22: for every Z and label, a sample AccuracyChunkCircuit counts (it is
\* eligible and its sign prediction equals the label) satisfies
\* SigmoidCircuit with the same Z and label.
C22_CountedSatisfiesSigmoid ==
  (circuit = "Sigmoid" /\ solved.done
     /\ ChunkWires(assignment.Z, assignment.Label).correct = 1) =>
        solved.satisfied

(***************************************************************************)
(* package utils: ComputeZ on int64 fixed-point values                     *)
(***************************************************************************)
\* the width of int64, scaled with Precision: twice the fractional bits
Int64Bits == 2 * Precision
MinInt64 == -Pow2(Int64Bits - 1)
MaxInt64 == Pow2(Int64Bits - 1) - 1

\* an int64 result: Go's signed arithmetic wraps around (two's complement)
Int64(n) == ((n - MinInt64) % Pow2(Int64Bits)) + MinInt64

\* Go's integer division and its float-to-integer conversion truncate
\* toward zero
Quo(a, b) == IF a >= 0 THEN a \div b ELSE -((-a) \div b)

\* const ScalingFactor = 1 << 32
ScalingFactor == Pow2(Precision)

\* a float64 is a fraction num / den with den a power of two
\* FloatToFixed: int64(f * float64(ScalingFactor))
FloatToFixed(f) == Int64(Quo(f.num * ScalingFactor, f.den))

\* FixedToFloat: float64(i) / float64(ScalingFactor)
FixedToFloat(i) == [num |-> i, den |-> ScalingFactor]

ComputeZ(w, b, x) ==
  LET wFixed == FloatToFixed(w)
      bFixed == FloatToFixed(b)
      xFixed == FloatToFixed(x)
      zScaled == Quo(Int64(wFixed * xFixed), ScalingFactor)
      z == Int64(zScaled + bFixed)
  IN FixedToFloat(z)

\* the encodings the arguments are drawn from: the small ones and the two
\* ends of int64
MaxEnc == 24
Encodings == (-MaxEnc .. MaxEnc) \cup {MinInt64, MaxInt64}

\* the float64 with the given fixed-point encoding
Decoded(e) == [num |-> e, den |-> ScalingFactor]

InitComputeZ ==
  /\ PipelineIdle
  /\ chunk = NoChunk
  /\ sample \in { [w |-> w, b |-> b, x |-> x, label |-> 0] :
                    w \in Encodings, b \in Encodings, x \in Encodings }
  /\ circuit = "none"
  /\ assignment = NoAssignment
  /\ solved = Unsolved

\* a call of utils.ComputeZ(w, b, x)
CallComputeZ ==
  /\ circuit = "none"
  /\ ~solved.done
  /\ solved' = [done |-> TRUE,
                z |-> ComputeZ(Decoded(sample.w), Decoded(sample.b),
                               Decoded(sample.x))]
  /\ UNCHANGED <<sample, circuit, assignment, chunk, pvars>>

NextComputeZ == CallComputeZ

SpecComputeZ == InitComputeZ /\ [][NextComputeZ]_vars

\* C23: for all w, x, b whose encodings fit in an int64, ComputeZ returns the
\* decoding of (enc(w) * enc(x)) / 2^Precision + enc(b) computed over the
\* integers: the product and the sum do not wrap around.
C23_ComputeZNoWrap ==
  solved.done =>
     solved.z = FixedToFloat(Quo(sample.w * sample.x, ScalingFactor) + sample.b)

(***************************************************************************)
(* main: the pipeline                                                      *)
(***************************************************************************)
\* W := -0.85735312 and B := 50.94705066, encoded by newScaled at this scale
W == -13
B == 815

MaxRuns == 2
MaxFaults == 1

\* the records of data/student_dataset_test.csv: n samples, the label of a
\* mark being the model's own sign prediction except at the indices in flips
MarkAt(i) == (i * 37) % 101
Dataset(n, flips) ==
  [marks |-> [i \in 1 .. n |-> MarkAt(i)],
   labels |-> [i \in 1 .. n |->
                 LET own == SignPrediction(W * MarkAt(i) + B)
                 IN IF i \in flips THEN 1 - own ELSE own]]

Datasets ==
  { Dataset(numChunks * ChunkSize, {}),
    Dataset(numChunks * ChunkSize, {3, 80, 90, 95}),
    Dataset(numChunks * ChunkSize - 1, {}),
    Dataset(numChunks * ChunkSize + 1, {}) }

\* an environment failure may strike while fewer than MaxFaults have
FaultChoices == IF faults < MaxFaults THEN {FALSE, TRUE} ELSE {FALSE}

\* in the per-sample loops, which treat every sample alike, environment
\* failures are tried on the first MaxFaultySample iterations
MaxFaultySample == 2
LoopFaultChoices(i) == IF i <= MaxFaultySample THEN FaultChoices ELSE {FALSE}

Init ==
  /\ HarnessIdle
  /\ pc = "load" /\ cur = "Linear" /\ run = 1 /\ faults = 0
  /\ fs = [c \in CircuitSet |-> Missing]
  /\ mem = [c \in CircuitSet |-> NoArtifacts]
  /\ cached = [c \in CircuitSet |-> FALSE]
  /\ nextKey = 1
  /\ compiles = [c \in CircuitSet |-> 0]
  /\ saves = [c \in CircuitSet |-> 0]
  /\ lastSaved = [c \in CircuitSet |-> NoArtifacts]
  /\ \E d \in Datasets : marks = d.marks /\ labels = d.labels
  /\ results = <<>> /\ validProofs = <<>>
  /\ proofGenCount = 0 /\ verifyIdx = 0 /\ successCount = 0
  /\ chunkCounts = <<>> /\ report = "none"

\* where main goes once circuit c is set up (after its constraint count is printed)
PcAfterSetup(c) ==
  CASE c = "Linear" -> "cache"
    [] c = "Sigmoid" -> "samples"
    [] c = "AccuracyChunk" -> "chunks"
    [] OTHER -> "aggregate"
CurAfterSetup(c) == IF c = "Linear" THEN "Sigmoid" ELSE c

\* lines 372-377: loadTestData; an error is fatal
LoadTestData ==
  /\ pc = "load"
  /\ \E openFails \in FaultChoices :
       /\ pc' = IF openFails THEN "aborted" ELSE "cache"
       /\ faults' = faults + (IF openFails THEN 1 ELSE 0)
  /\ UNCHANGED <<hvars, cur, run, fs, mem, cached, nextKey, compiles, saves,
                 lastSaved, marks, labels, results, validProofs, proofGenCount,
                 verifyIdx, successCount, chunkCounts, report>>

\* a bug: a load error is treated as fatal
CacheLoadFatal ==
  /\ pc = "cache"
  /\ IF ~fs[cur].exists
       THEN /\ pc' = "compile"
            /\ UNCHANGED <<cur, mem, cached, faults>>
       ELSE \E ioErr \in FaultChoices :
              LET r == loadCircuitData(fs[cur], ioErr)
              IN /\ mem' = [mem EXCEPT ![cur] = r.data]
                 /\ faults' = faults + (IF ioErr THEN 1 ELSE 0)
                 /\ cached' = [cached EXCEPT ![cur] = ~r.err]
                 /\ pc' = IF r.err THEN "aborted" ELSE PcAfterSetup(cur)
                 /\ cur' = IF r.err THEN cur ELSE CurAfterSetup(cur)
  /\ UNCHANGED <<hvars, run, fs, nextKey, compiles, saves, lastSaved, marks,
                 labels, results, validProofs, proofGenCount, verifyIdx,
                 successCount, chunkCounts, report>>

\* a bug: after a load error main goes on without building the circuit
CacheLoadNoRebuild ==
  /\ pc = "cache"
  /\ IF ~fs[cur].exists
       THEN /\ pc' = "compile"
            /\ UNCHANGED <<cur, mem, cached, faults>>
       ELSE \E ioErr \in FaultChoices :
              LET r == loadCircuitData(fs[cur], ioErr)
              IN /\ mem' = [mem EXCEPT ![cur] = r.data]
                 /\ faults' = faults + (IF ioErr THEN 1 ELSE 0)
                 /\ cached' = [cached EXCEPT ![cur] = ~r.err]
                 /\ pc' = PcAfterSetup(cur)
                 /\ cur' = CurAfterSetup(cur)
  /\ UNCHANGED <<hvars, run, fs, nextKey, compiles, saves, lastSaved, marks,
                 labels, results, validProofs, proofGenCount, verifyIdx,
                 successCount, chunkCounts, report>>

\* lines 391-403 (and 443-455, 641-652, 722-733): cached := false; if os.Stat
\* finds the file, loadCircuitData; a load error is logged and leaves cached false
CacheLoad ==
  /\ pc = "cache"
  /\ IF ~fs[cur].exists
       THEN /\ pc' = "compile"
            /\ UNCHANGED <<cur, mem, cached, faults>>
       ELSE \E ioErr \in FaultChoices :
              LET r == loadCircuitData(fs[cur], ioErr)
              IN /\ mem' = [mem EXCEPT ![cur] = r.data]
                 /\ faults' = faults + (IF ioErr THEN 1 ELSE 0)
                 /\ cached' = [cached EXCEPT ![cur] = ~r.err]
                 /\ pc' = IF r.err THEN "compile" ELSE PcAfterSetup(cur)
                 /\ cur' = IF r.err THEN cur ELSE CurAfterSetup(cur)
  /\ UNCHANGED <<hvars, run, fs, nextKey, compiles, saves, lastSaved, marks,
                 labels, results, validProofs, proofGenCount, verifyIdx,
                 successCount, chunkCounts, report>>

\* a bug: a failed compile or setup is tried again
CompileSetupRetry ==
  /\ pc = "compile"
  /\ compiles' = [compiles EXCEPT ![cur] = @ + 1]
  /\ \E fails \in FaultChoices :
       /\ faults' = faults + (IF fails THEN 1 ELSE 0)
       /\ pc' = IF fails THEN "compile" ELSE "save"
       /\ mem' = IF fails THEN mem
                 ELSE [mem EXCEPT ![cur] = CompileAndSetup(cur, nextKey)]
       /\ nextKey' = IF fails THEN nextKey ELSE nextKey + 1
  /\ UNCHANGED <<hvars, cur, run, fs, cached, saves, lastSaved, marks, labels,
                 results, validProofs, proofGenCount, verifyIdx, successCount,
                 chunkCounts, report>>

\* lines 405-423: if !cached, frontend.Compile (log.Fatal on error),
\* unsafekzg.NewSRS (panic on error), plonk.Setup (log.Fatal on error)
CompileSetup ==
  /\ pc = "compile"
  /\ compiles' = [compiles EXCEPT ![cur] = @ + 1]
  /\ \E fails \in FaultChoices :
       /\ faults' = faults + (IF fails THEN 1 ELSE 0)
       /\ pc' = IF fails THEN "aborted" ELSE "save"
       /\ mem' = IF fails THEN mem
                 ELSE [mem EXCEPT ![cur] = CompileAndSetup(cur, nextKey)]
       /\ nextKey' = IF fails THEN nextKey ELSE nextKey + 1
  /\ UNCHANGED <<hvars, cur, run, fs, cached, saves, lastSaved, marks, labels,
                 results, validProofs, proofGenCount, verifyIdx, successCount,
                 chunkCounts, report>>

\* lines 425-432: saveCircuitData; its error is logged as a warning; then the
\* constraint count is printed and main goes on
Save ==
  /\ pc = "save"
  /\ saves' = [saves EXCEPT ![cur] = @ + 1]
  /\ \E failure \in FaultChoices, createFails \in BOOLEAN, written \in 0 .. 3 :
     \* the WriteTo that fails leaves its section partly written
     LET partial == ~createFails /\ written < 3
     IN
       /\ failure = (createFails \/ written < 3)
       /\ createFails => written = 0
       /\ LET r == saveCircuitData(fs[cur], mem[cur], createFails, written, partial)
          IN /\ fs' = [fs EXCEPT ![cur] = r.file]
             /\ lastSaved' = [lastSaved EXCEPT ![cur] =
                                IF createFails THEN @
                                ELSE IF r.err THEN NoArtifacts ELSE mem[cur]]
       /\ faults' = faults + (IF failure THEN 1 ELSE 0)
  /\ pc' = PcAfterSetup(cur)
  /\ cur' = CurAfterSetup(cur)
  /\ UNCHANGED <<hvars, run, mem, cached, nextKey, compiles, marks, labels,
                 results, validProofs, proofGenCount, verifyIdx, successCount,
                 chunkCounts, report>>

\* the process dies inside saveCircuitData, after os.Create: the file is a
\* prefix of what was being written, or, when the machine went down with it,
\* a torn file
SaveKilled ==
  /\ pc = "save"
  /\ faults < MaxFaults
  /\ saves' = [saves EXCEPT ![cur] = @ + 1]
  /\ \/ \E written \in 0 .. 2 :
          fs' = [fs EXCEPT ![cur] =
                   saveCircuitData(@, mem[cur], FALSE, written, TRUE).file]
     \/ \E k \in 2 .. 3 : fs' = [fs EXCEPT ![cur] = TornFile(mem[cur], k)]
  /\ lastSaved' = [lastSaved EXCEPT ![cur] = NoArtifacts]
  /\ faults' = faults + 1
  /\ pc' = "killed"
  /\ UNCHANGED <<hvars, cur, run, mem, cached, nextKey, compiles, marks, labels,
                 results, validProofs, proofGenCount, verifyIdx, successCount,
                 chunkCounts, report>>

\* the linear and the sigmoid witness of sample i (lines 511-522, 547-551)
LinearAssignment(i) ==
  [W |-> ToField(W), B |-> ToField(B), X |-> ToField(newScaled(marks[i])),
   Z |-> ToField(LinearZ(W, newScaled(marks[i]), B))]
\* a bug: the sigmoid witness takes the Z left over from the sample before
SigmoidAssignmentStale(i) ==
  LET j == IF i > 1 THEN i - 1 ELSE i
  IN [Z |-> ToField(LinearZ(W, newScaled(marks[j]), B)), Label |-> ToField(labels[i])]

SigmoidAssignment(i) ==
  [Z |-> ToField(LinearZ(W, newScaled(marks[i]), B)), Label |-> ToField(labels[i])]

\* witness.Public(): the variables tagged gnark:",public"
LinearPublic(a) == [X |-> a.X, Z |-> a.Z]
SigmoidPublic(a) == [Z |-> a.Z, Label |-> a.Label]

\* how the loop body can end for sample i: a witness error or a prover error
\* on either circuit (each one a continue), or both proofs produced.  The
\* prover fails when Define is unsatisfied on the witness, or by an
\* environment failure
SampleOutcomes(i) ==
  LET envFails == IF TRUE \in LoopFaultChoices(i)
                    THEN {"linearWitness", "linearProve", "sigmoidWitness", "sigmoidProve"}
                    ELSE {}
      own == IF ~LinearDefine(LinearAssignment(i)).satisfied THEN "linearProve"
             ELSE IF ~SigmoidDefine(SigmoidAssignment(i)).satisfied THEN "sigmoidProve"
             ELSE "retained"
  IN  { [how |-> own, env |-> FALSE] } \cup
      { [how |-> f, env |-> TRUE] :
          f \in IF own = "linearProve" THEN envFails \cap {"linearWitness"}
                ELSE envFails }

\* a bug: a failed witness or proof of a sample ends the run
SampleStepFatal ==
  /\ pc = "samples"
  /\ Len(results) < Len(marks)
  /\ LET i == Len(results) + 1
         lin == LinearAssignment(i)
         sig == SigmoidAssignment(i)
     IN \E o \in SampleOutcomes(i) :
          /\ results' = Append(results, o.how)
          /\ pc' = IF o.how = "retained" THEN pc ELSE "aborted"
          /\ faults' = faults + (IF o.env THEN 1 ELSE 0)
          /\ IF o.how = "retained"
               THEN /\ validProofs' = Append(validProofs,
                         [linearProof |-> Prove(mem["Linear"].ccs, mem["Linear"].pk,
                                                LinearPublic(lin)),
                          linearPublic |-> LinearPublic(lin),
                          sigmoidProof |-> Prove(mem["Sigmoid"].ccs, mem["Sigmoid"].pk,
                                                 SigmoidPublic(sig)),
                          sigmoidPublic |-> SigmoidPublic(sig),
                          mark |-> marks[i],
                          expectedLabel |-> labels[i],
                          sampleNum |-> i])
                    /\ proofGenCount' = proofGenCount + 1
               ELSE UNCHANGED <<validProofs, proofGenCount>>
  /\ UNCHANGED <<hvars, cur, run, fs, mem, cached, nextKey, compiles, saves,
                 lastSaved, marks, labels, verifyIdx, successCount, chunkCounts,
                 report>>

\* lines 502-586: one iteration of the per-sample loop
SampleStep ==
  /\ pc = "samples"
  /\ Len(results) < Len(marks)
  /\ LET i == Len(results) + 1
         lin == LinearAssignment(i)
         sig == SigmoidAssignment(i)
     IN \E o \in SampleOutcomes(i) :
          /\ results' = Append(results, o.how)
          /\ faults' = faults + (IF o.env THEN 1 ELSE 0)
          /\ IF o.how = "retained"
               THEN /\ validProofs' = Append(validProofs,
                         [linearProof |-> Prove(mem["Linear"].ccs, mem["Linear"].pk,
                                                LinearPublic(lin)),
                          linearPublic |-> LinearPublic(lin),
                          sigmoidProof |-> Prove(mem["Sigmoid"].ccs, mem["Sigmoid"].pk,
                                                 SigmoidPublic(sig)),
                          sigmoidPublic |-> SigmoidPublic(sig),
                          mark |-> marks[i],
                          expectedLabel |-> labels[i],
                          sampleNum |-> i])
                    /\ proofGenCount' = proofGenCount + 1
               ELSE UNCHANGED <<validProofs, proofGenCount>>
  /\ UNCHANGED <<hvars, pc, cur, run, fs, mem, cached, nextKey, compiles, saves,
                 lastSaved, marks, labels, verifyIdx, successCount, chunkCounts,
                 report>>

\* line 588: the loop is over
SamplesDone ==
  /\ pc = "samples"
  /\ Len(results) = Len(marks)
  /\ pc' = "verify"
  /\ UNCHANGED <<hvars, cur, run, faults, fs, mem, cached, nextKey, compiles,
                 saves, lastSaved, marks, labels, results, validProofs,
                 proofGenCount, verifyIdx, successCount, chunkCounts, report>>

\* a bug: a failed verification ends the run
VerifyStepFatal ==
  /\ pc = "verify"
  /\ verifyIdx < Len(validProofs)
  /\ LET pd == validProofs[verifyIdx + 1]
     IN \E envFails \in LoopFaultChoices(verifyIdx + 1) :
          LET linearOk == Verify(pd.linearProof, mem["Linear"].vk, pd.linearPublic)
              sigmoidOk == Verify(pd.sigmoidProof, mem["Sigmoid"].vk, pd.sigmoidPublic)
          IN /\ successCount' = successCount +
                   (IF linearOk /\ sigmoidOk /\ ~envFails THEN 1 ELSE 0)
             /\ faults' = faults + (IF envFails THEN 1 ELSE 0)
             /\ pc' = IF linearOk /\ sigmoidOk /\ ~envFails THEN pc ELSE "aborted"
  /\ verifyIdx' = verifyIdx + 1
  /\ UNCHANGED <<hvars, cur, run, fs, mem, cached, nextKey, compiles, saves,
                 lastSaved, marks, labels, results, validProofs, proofGenCount,
                 chunkCounts, report>>

\* lines 601-622: one iteration of the verification loop; a failed
\* verification is logged and the loop continues
VerifyStep ==
  /\ pc = "verify"
  /\ verifyIdx < Len(validProofs)
  /\ LET pd == validProofs[verifyIdx + 1]
     IN \E envFails \in LoopFaultChoices(verifyIdx + 1) :
          LET linearOk == Verify(pd.linearProof, mem["Linear"].vk, pd.linearPublic)
              sigmoidOk == Verify(pd.sigmoidProof, mem["Sigmoid"].vk, pd.sigmoidPublic)
          IN /\ successCount' = successCount +
                   (IF linearOk /\ sigmoidOk /\ ~envFails THEN 1 ELSE 0)
             /\ faults' = faults + (IF envFails THEN 1 ELSE 0)
  /\ verifyIdx' = verifyIdx + 1
  /\ UNCHANGED <<hvars, pc, cur, run, fs, mem, cached, nextKey, compiles, saves,
                 lastSaved, marks, labels, results, validProofs, proofGenCount,
                 chunkCounts, report>>

\* lines 624-634: the summary; the chunk circuit is set up next
VerifyDone ==
  /\ pc = "verify"
  /\ verifyIdx = Len(validProofs)
  /\ pc' = "cache"
  /\ cur' = "AccuracyChunk"
  /\ UNCHANGED <<hvars, run, faults, fs, mem, cached, nextKey, compiles, saves,
                 lastSaved, marks, labels, results, validProofs, proofGenCount,
                 verifyIdx, successCount, chunkCounts, report>>

\* lines 704-711: the count of the chunk that starts after startIdx,
\* recomputed off-circuit from the model w, b
RECURSIVE OffChainCount(_, _, _, _)
OffChainCount(w, b, startIdx, n) ==
  IF n = 0 THEN 0
  ELSE OffChainCount(w, b, startIdx, n - 1) +
       OffChainCorrect(w, b, marks[startIdx + n], labels[startIdx + n])

\* AccuracyChunkCircuit.Define on the witness of the chunk: sumCorrect
RECURSIVE ChunkSumCorrect(_, _)
ChunkSumCorrect(startIdx, n) ==
  IF n = 0 THEN 0
  ELSE Add(ChunkSumCorrect(startIdx, n - 1),
           ChunkSample(ToField(W), ToField(B),
                       ToField(newScaled(marks[startIdx + n])),
                       ToField(labels[startIdx + n])).correct)

\* lines 681-715: one iteration of the chunk loop.  Reading marks[startIdx+i]
\* past the dataset panics; a witness or prover error is log.Fatalf; the
\* proof is dropped and the count recomputed off-circuit is kept
ChunkProve ==
  /\ pc = "chunks"
  /\ Len(chunkCounts) < numChunks
  /\ LET startIdx == Len(chunkCounts) * ChunkSize
     IN IF startIdx + ChunkSize > Len(marks)
          THEN /\ pc' = "aborted"
               /\ UNCHANGED <<faults, chunkCounts>>
          ELSE \E envFails \in FaultChoices :
                 /\ faults' = faults + (IF envFails THEN 1 ELSE 0)
                 /\ pc' = IF envFails THEN "aborted" ELSE pc
                 /\ chunkCounts' = IF envFails THEN chunkCounts
                                   ELSE Append(chunkCounts,
                                               OffChainCount(W, B, startIdx, ChunkSize))
  /\ UNCHANGED <<hvars, cur, run, fs, mem, cached, nextKey, compiles, saves,
                 lastSaved, marks, labels, results, validProofs, proofGenCount,
                 verifyIdx, successCount, report>>

\* the chunks whose proof main passes to plonk.Verify before it uses the
\* chunk's count: none; chunkProof is assigned to the blank identifier
VerifiedChunkProofs == {}

\* line 717: the chunk loop is over; the aggregator circuit is set up next
ChunksDone ==
  /\ pc = "chunks"
  /\ Len(chunkCounts) = numChunks
  /\ pc' = "cache"
  /\ cur' = "Aggregator"
  /\ UNCHANGED <<hvars, run, faults, fs, mem, cached, nextKey, compiles, saves,
                 lastSaved, marks, labels, results, validProofs, proofGenCount,
                 verifyIdx, successCount, chunkCounts, report>>

\* a bug: the counts of the first two chunks are assigned the wrong way round
AggregatorAssignmentSwapped ==
  [Count1 |-> ToField(chunkCounts[2]), Count2 |-> ToField(chunkCounts[1]),
   Count3 |-> ToField(chunkCounts[3]), Count4 |-> ToField(chunkCounts[4])]

\* lines 759-763: the aggregator witness
AggregatorAssignment ==
  [Count1 |-> ToField(chunkCounts[1]), Count2 |-> ToField(chunkCounts[2]),
   Count3 |-> ToField(chunkCounts[3]), Count4 |-> ToField(chunkCounts[4])]

\* a bug: the accuracy is reported whatever the prover and the verifier said
AggregateUnchecked ==
  /\ pc = "aggregate"
  /\ \E envFails \in FaultChoices :
       LET a == AggregatorAssignment
       IN /\ faults' = faults + (IF envFails THEN 1 ELSE 0)
          /\ circuit' = "Aggregator"
          /\ assignment' = a
          /\ solved' = IF envFails THEN Unsolved ELSE AggregatorDefine(a)
          /\ pc' = "done"
          /\ report' = "accuracyVerified"
  /\ UNCHANGED <<sample, chunk, cur, run, fs, mem, cached, nextKey, compiles,
                 saves, lastSaved, marks, labels, results, validProofs,
                 proofGenCount, verifyIdx, successCount, chunkCounts>>

\* lines 758-785: the aggregator witness is filled from chunkCounts; an error
\* of NewWitness, Public, plonk.Prove (the solver runs Define on the witness)
\* or plonk.Verify is log.Fatal; then the accuracy is reported
Aggregate ==
  /\ pc = "aggregate"
  /\ \E envFails \in FaultChoices :
       LET a == AggregatorAssignment
           proof == Prove(mem["Aggregator"].ccs, mem["Aggregator"].pk, a)
           ok == /\ ~envFails
                 /\ AggregatorDefine(a).satisfied
                 /\ Verify(proof, mem["Aggregator"].vk, a)
       IN /\ faults' = faults + (IF envFails THEN 1 ELSE 0)
          /\ circuit' = "Aggregator"
          /\ assignment' = a
          /\ solved' = IF envFails THEN Unsolved ELSE AggregatorDefine(a)
          /\ pc' = IF ok THEN "done" ELSE "aborted"
          /\ report' = IF ok THEN "accuracyVerified" ELSE report
  /\ UNCHANGED <<sample, chunk, cur, run, fs, mem, cached, nextKey, compiles,
                 saves, lastSaved, marks, labels, results, validProofs,
                 proofGenCount, verifyIdx, successCount, chunkCounts>>

\* the program is run again: the cache files are what the last run left
Restart ==
  /\ pc \in {"done", "aborted", "killed"}
  /\ run < MaxRuns
  /\ run' = run + 1
  /\ pc' = "load" /\ cur' = "Linear"
  /\ mem' = [c \in CircuitSet |-> NoArtifacts]
  /\ cached' = [c \in CircuitSet |-> FALSE]
  /\ compiles' = [c \in CircuitSet |-> 0]
  /\ saves' = [c \in CircuitSet |-> 0]
  /\ results' = <<>> /\ validProofs' = <<>>
  /\ proofGenCount' = 0 /\ verifyIdx' = 0 /\ successCount' = 0
  /\ chunkCounts' = <<>> /\ report' = "none"
  /\ circuit' = "none" /\ assignment' = NoAssignment /\ solved' = Unsolved
  /\ UNCHANGED <<sample, chunk, faults, fs, nextKey, lastSaved, marks, labels>>

Next ==
  \/ LoadTestData \/ CacheLoad \/ CompileSetup \/ Save \/ SaveKilled
  \/ SampleStep \/ SamplesDone \/ VerifyStep \/ VerifyDone
  \/ ChunkProve \/ ChunksDone \/ Aggregate \/ Restart

Spec == Init /\ [][Next]_vars

(***************************************************************************)
(* What a run makes public                                                 *)
(***************************************************************************)
\* the alternative models compared with (W, B): W within MaxDelta encoded
\* units, and any B that could offset such a W on some mark
MaxDelta == 3
AltModels ==
  { m \in ((W - MaxDelta) .. (W + MaxDelta)) \X
          ((B - MaxDelta * MaxMark) .. (B + MaxDelta * MaxMark)) :
      m # <<W, B>> }

\* the model <<w, b>> yields the public values of this run: the public Z of
\* every retained sample and the four chunk counts
SamePublicValues(m) ==
  /\ \A k \in 1 .. Len(validProofs) :
       ToField(LinearZ(m[1], newScaled(validProofs[k].mark), m[2]))
         = validProofs[k].linearPublic.Z
  /\ \A c \in 1 .. Len(chunkCounts) :
       OffChainCount(m[1], m[2], (c - 1) * ChunkSize, ChunkSize) = chunkCounts[c]

\* C7: the run does not reveal the model: when the run is over there is a
\* different model for which every public value of the run is the same.
C7_PublicValuesHideModel ==
  pc = "done" => \E m \in AltModels : SamePublicValues(m)

(***************************************************************************)
(* Setup-or-load                                                           *)
(***************************************************************************)
StageIndex(c) ==
  CASE c = "Linear" -> 1
    [] c = "Sigmoid" -> 2
    [] c = "AccuracyChunk" -> 3
    [] OTHER -> 4

\* the setup-or-load stage of circuit c is over in this run
StagePassed(c) ==
  /\ pc # "load"
  /\ \/ StageIndex(cur) > StageIndex(c)
     \/ cur = c /\ pc \in {"samples", "verify", "chunks", "aggregate", "done"}

C8_State ==
  \A c \in CircuitSet :
    /\ cached[c] => (compiles[c] = 0 /\ saves[c] = 0 /\ mem[c].ready)
    /\ saves[c] <= compiles[c]
    /\ StagePassed(c) =>
         /\ mem[c].ready
         /\ mem[c].ccs.circuit = c /\ mem[c].pk.circuit = c /\ mem[c].vk.circuit = c
         /\ cached[c] \/ (compiles[c] = 1 /\ saves[c] = 1)

C8_Step ==
  /\ pc = "cache" =>
       /\ pc' \in {"compile", PcAfterSetup(cur)}
       /\ ~fs[cur].exists => pc' = "compile"
       /\ pc' = "compile" <=> ~cached'[cur]
       /\ UNCHANGED <<compiles, saves, fs>>
  /\ (pc = "save" /\ pc' # "killed") =>
       /\ pc' = PcAfterSetup(cur)
       /\ mem'[cur].ready
       /\ saves'[cur] = saves[cur] + 1

\* C8: setup-or-load of each circuit: a cache file that loads means no
\* compile, setup or save; a missing file or a failed load means compile,
\* setup, then one save attempt; neither a load error nor a save error ends
\* the run, and a stage that is passed leaves the constraint system, the
\* proving key and the verifying key of its circuit in memory.
C8_SetupOrLoad == [](C8_State) /\ [][C8_Step]_vars

\* a second run loads the Linear cache, finds no usable Sigmoid cache,
\* rebuilds and saves it, and goes on to the samples
C8_Witness ==
  /\ run = 2 /\ pc = "samples" /\ faults = 1
  /\ cached["Linear"] /\ compiles["Linear"] = 0
  /\ ~cached["Sigmoid"] /\ compiles["Sigmoid"] = 1 /\ saves["Sigmoid"] = 1
  /\ mem["Sigmoid"].ready

\* nothing of circuit c's stage or of a later stage has happened in this run
NoLaterWork(c) ==
  /\ report = "none"
  /\ StageIndex(c) <= 3 => chunkCounts = <<>>
  /\ StageIndex(c) <= 2 => (results = <<>> /\ validProofs = <<>> /\ verifyIdx = 0)

\* the run was ended by a failed compile or setup of circuit cur
CompileFailed == pc = "aborted" /\ compiles[cur] = 1 /\ ~mem[cur].ready

C9_State ==
  /\ \A c \in CircuitSet : compiles[c] <= 1
  /\ CompileFailed => NoLaterWork(cur)

C9_Step ==
  /\ pc = "compile" =>
       /\ ~cached[cur] /\ compiles[cur] = 0
       /\ compiles'[cur] = 1
       /\ pc' \in {"save", "aborted"}
       /\ pc' = "aborted" <=> ~mem'[cur].ready
  /\ pc = "aborted" =>
       /\ run' = run + 1 /\ pc' = "load"
       /\ results' = <<>> /\ validProofs' = <<>> /\ chunkCounts' = <<>>
       /\ \A c \in CircuitSet : ~mem'[c].ready /\ compiles'[c] = 0

\* C9: on a cache miss one compile+setup attempt is made for the circuit in
\* the run and never a second; when it fails the run is over: no proof of
\* that circuit and no later stage has run or runs afterwards, and the next
\* run starts from nothing but the cache files.
C9_OneRebuildNoRetry == [](C9_State) /\ [][C9_Step]_vars

\* the chunk circuit's compile or setup failed after the samples were proved
C9_Witness ==
  /\ CompileFailed /\ cur = "AccuracyChunk"
  /\ Len(validProofs) > 0 /\ chunkCounts = <<>>

RetainedSamples == { i \in 1 .. Len(results) : results[i] = "retained" }

C11_State ==
  /\ Len(results) <= Len(marks)
  /\ pc \in {"verify", "chunks", "aggregate", "done"} => Len(results) = Len(marks)
  /\ Len(validProofs) = Cardinality(RetainedSamples)
  /\ proofGenCount = Len(validProofs)
  /\ \A k \in 1 .. Len(validProofs) :
       LET pd == validProofs[k]
       IN /\ pd.sampleNum \in 1 .. Len(results)
          /\ results[pd.sampleNum] = "retained"
          /\ pd.linearProof.circuit = "Linear"
          /\ pd.sigmoidProof.circuit = "Sigmoid"
          /\ pd.linearProof.public.Z = pd.sigmoidProof.public.Z
          /\ k > 1 => validProofs[k - 1].sampleNum < pd.sampleNum

C11_Step ==
  pc = "samples" =>
    /\ pc' \in {"samples", "verify"}
    /\ pc' = "verify" <=> Len(results) = Len(marks)
    /\ pc' = "samples" =>
         /\ Len(results') = Len(results) + 1
         /\ SubSeq(results', 1, Len(results)) = results
         /\ SubSeq(validProofs', 1, Len(validProofs)) = validProofs

\* C11: a failed witness or proof of sample i skips that sample only: the
\* run goes on, every later sample gets its iteration, and validProofs holds
\* exactly the samples with both a linear and a sigmoid proof, in order.
C11_SampleFailureSkips == [](C11_State) /\ [][C11_Step]_vars

\* the sigmoid proof of a sample failed after its linear proof was made, and
\* a later sample was retained
C11_Witness ==
  /\ pc = "samples"
  /\ \E i \in 1 .. Len(results) :
       /\ results[i] = "sigmoidProve"
       /\ \E j \in RetainedSamples : j > i

(***************************************************************************)
(* The chunk stage                                                         *)
(***************************************************************************)
\* the chunk loop is where main is or where it ended: the chunk circuit is
\* set up and the aggregator's setup has not begun
InChunkLoop == cur = "AccuracyChunk" /\ mem[cur].ready /\ pc \in {"chunks", "aborted"}

\* C12: a witness or proof failure of one chunk is recoverable: on a
\* dataset that fills the four chunks the chunk loop never ends the run.
C12_ChunkFailureRecoverable ==
  (InChunkLoop /\ Len(marks) >= numChunks * ChunkSize) => pc # "aborted"

\* C14: an interrupted or failed saveCircuitData never leaves a file that
\* loadCircuitData accepts: whatever file loads without error holds the
\* artifacts of a completed save, and loaded artifacts are those.
C14_NoPartialCacheAccepted ==
  \A c \in CircuitSet :
    LET r == loadCircuitData(fs[c], FALSE)
    IN /\ ~r.err => (lastSaved[c].ready /\ r.data = lastSaved[c])
       /\ cached[c] => (lastSaved[c].ready /\ mem[c] = lastSaved[c])

(***************************************************************************)
(* The verification stage                                                  *)
(***************************************************************************)
\* both proofs of the pair verify under main's verifying keys
PairVerifies(pd) ==
  /\ Verify(pd.linearProof, mem["Linear"].vk, pd.linearPublic)
  /\ Verify(pd.sigmoidProof, mem["Sigmoid"].vk, pd.sigmoidPublic)

C13_State ==
  /\ successCount <= verifyIdx
  /\ verifyIdx <= Len(validProofs)
  /\ proofGenCount = Len(validProofs)
  /\ proofGenCount <= Len(marks)
  /\ successCount <=
       Cardinality({ k \in 1 .. verifyIdx : PairVerifies(validProofs[k]) })
  /\ StageIndex(cur) >= 3 => verifyIdx = Len(validProofs)

C13_Step ==
  pc = "verify" =>
    /\ pc' \in {"verify", "cache"}
    /\ pc' = "cache" <=> verifyIdx = Len(validProofs)
    /\ pc' = "cache" => (cur' = "AccuracyChunk" /\ UNCHANGED <<verifyIdx, successCount>>)
    /\ pc' = "verify" =>
         /\ verifyIdx' = verifyIdx + 1
         /\ successCount' = successCount +
              (IF PairVerifies(validProofs[verifyIdx + 1]) /\ faults' = faults
                 THEN 1 ELSE 0)
    /\ UNCHANGED <<validProofs, proofGenCount>>

\* C13: the verification loop visits every retained pair; a failed
\* verification never ends the run nor the loop; successCount counts the
\* pairs whose two proofs verified, so successCount <= proofGenCount <= the
\* number of samples.
C13_VerifyAllPairs == [](C13_State) /\ [][C13_Step]_vars

\* the stage is over, a pair failed to verify and later pairs verified
C13_Witness ==
  /\ StageIndex(cur) >= 3 /\ verifyIdx = Len(validProofs)
  /\ 0 < successCount /\ successCount < proofGenCount

(***************************************************************************)
(* Ordering of the stages                                                  *)
(***************************************************************************)
\* main holds the constraint system and the keys of circuit c, built or loaded
Available(c) ==
  /\ mem[c].ready
  /\ mem[c].ccs.circuit = c /\ mem[c].pk.circuit = c /\ mem[c].vk.circuit = c
  /\ cached[c] \/ compiles[c] = 1

\* C15: the compile+setup or the cache load of a circuit is over before the
\* first prove call for the circuit: wherever main is about to prove, or has
\* proved, the circuit's constraint system and keys are in memory, and every
\* proof kept was made with them.
C15_SetupBeforeProve ==
  /\ (pc = "samples" \/ results # <<>>) => (Available("Linear") /\ Available("Sigmoid"))
  /\ (pc = "chunks" \/ chunkCounts # <<>>) => Available("AccuracyChunk")
  /\ (pc = "aggregate" \/ report # "none") => Available("Aggregator")
  /\ \A k \in 1 .. Len(validProofs) :
       /\ validProofs[k].linearProof.circuit = mem["Linear"].ccs.circuit
       /\ validProofs[k].linearProof.key = mem["Linear"].pk.key
       /\ validProofs[k].sigmoidProof.circuit = mem["Sigmoid"].ccs.circuit
       /\ validProofs[k].sigmoidProof.key = mem["Sigmoid"].pk.key

\* a second run proves a chunk with the chunk circuit it loaded from the cache
C15_Witness ==
  /\ run = 2 /\ pc = "chunks" /\ Len(chunkCounts) = 1
  /\ cached["AccuracyChunk"] /\ compiles["AccuracyChunk"] = 0
  /\ Len(validProofs) > 0

\* the counts of the four chunks, as main's off-circuit loop computes them
CountsKnown ==
  /\ Len(chunkCounts) = numChunks
  /\ \A k \in 1 .. numChunks :
       chunkCounts[k] = OffChainCount(W, B, (k - 1) * ChunkSize, ChunkSize)

\* C16: the aggregator witness is built and its proof made only after all
\* four chunk counts are computed, and its four public inputs are
\* chunkCounts[0..3] in chunk order.
C16_AggregatorAfterCounts ==
  /\ pc = "aggregate" => CountsKnown
  /\ circuit = "Aggregator" =>
       /\ CountsKnown
       /\ assignment.Count1 = ToField(chunkCounts[1])
       /\ assignment.Count2 = ToField(chunkCounts[2])
       /\ assignment.Count3 = ToField(chunkCounts[3])
       /\ assignment.Count4 = ToField(chunkCounts[4])
  /\ report # "none" => circuit = "Aggregator"

\* the aggregator witness was built from four counts that are not all equal
C16_Witness ==
  /\ circuit = "Aggregator" /\ solved.done
  /\ chunkCounts = <<24, 25, 25, 22>>
  /\ assignment.Count1 = 24 /\ assignment.Count4 = 22

\* C17: every chunk proof is verified against the chunk verifying key and
\* the chunk's public inputs before the chunk's count enters the aggregator.
C17_ChunkProofVerifiedFirst ==
  (pc = "aggregate" \/ circuit = "Aggregator") =>
     \A k \in 1 .. Len(chunkCounts) : k \in VerifiedChunkProofs

(***************************************************************************)
(* The accuracy report                                                     *)
(***************************************************************************)
ChunkCountSum == chunkCounts[1] + chunkCounts[2] + chunkCounts[3] + chunkCounts[4]

\* the aggregator's proving and verifying key belong together
AggregatorKeysMatch == mem["Aggregator"].pk = mem["Aggregator"].vk

\* C18: the accuracy is reported as accepted only when the aggregator proof
\* was made and verified over four counts whose sum is at least 97; counts
\* summing to less (24, 25, 25, 22) end the run with no such report, and the
\* counts 25, 25, 25, 25 lead to the report.
C18_ReportOnlyIfAggregated ==
  /\ report # "none" =>
       /\ pc = "done"
       /\ Len(chunkCounts) = numChunks /\ ChunkCountSum >= 97
       /\ circuit = "Aggregator" /\ solved.done /\ solved.satisfied
       /\ Available("Aggregator") /\ AggregatorKeysMatch
  /\ pc = "done" => report = "accuracyVerified"
  /\ (circuit = "Aggregator" /\ ChunkCountSum < 97) =>
       (report = "none" /\ pc = "aborted" /\ (solved.done => ~solved.satisfied))
  /\ (circuit = "Aggregator" /\ solved.done /\ AggregatorKeysMatch
        /\ chunkCounts = <<25, 25, 25, 25>>) =>
       report = "accuracyVerified"

\* the run on the clean dataset ends with the accepted report
C18_Witness ==
  /\ report = "accuracyVerified" /\ pc = "done"
  /\ chunkCounts = <<25, 25, 25, 25>>

\* C20: for a dataset of any length n the chunk stage partitions it into
\* consecutive chunks of 25: no index >= n is read, every sample is in a
\* chunk, and the samples the chunks cover are the len(marks) of the report.
C20_ChunksPartitionDataset ==
  /\ (pc = "chunks" /\ Len(chunkCounts) < numChunks) =>
        (Len(chunkCounts) + 1) * ChunkSize <= Len(marks)
  /\ Len(chunkCounts) = numChunks => numChunks * ChunkSize = Len(marks)


\* the retained pair pd is made of the values of sample pd.sampleNum alone
PairOfOneSample(pd) ==
  LET i == pd.sampleNum
  IN /\ i \in 1 .. Len(marks)
     /\ pd.mark = marks[i]
     /\ pd.expectedLabel = labels[i]
     /\ pd.linearPublic.X = ToField(newScaled(marks[i]))
     /\ pd.linearPublic.Z = ToField(LinearZ(W, newScaled(marks[i]), B))
     /\ pd.sigmoidPublic.Z = pd.linearPublic.Z
     /\ pd.sigmoidPublic.Label = ToField(labels[i])
     /\ pd.linearProof.public = pd.linearPublic
     /\ pd.sigmoidProof.public = pd.sigmoidPublic

\* the pair retained last is of one sample
C24_State ==
  validProofs # <<>> => PairOfOneSample(validProofs[Len(validProofs)])

\* validProofs changes only by retaining one more pair or by starting anew,
\* and the dataset changes only while nothing is retained: a pair once
\* retained stays as it was, beside the marks and labels it was made from
C24_Step ==
  /\ validProofs' # validProofs =>
        \/ validProofs' = <<>>
        \/ /\ Len(validProofs') = Len(validProofs) + 1
           /\ SubSeq(validProofs', 1, Len(validProofs)) = validProofs
  /\ (marks' # marks \/ labels' # labels) =>
        (validProofs = <<>> \/ validProofs' = <<>>)

\* C24: every pair retained in validProofs belongs to one sample: the sigmoid
\* public witness carries the same Z as the linear public witness, whose X
\* is the encoding of that sample's mark; the label, the mark and the proofs
\* stored beside them are that sample's too.
C24_RetainedPairOfOneSample == [](C24_State) /\ [][C24_Step]_vars

\* two pairs are retained with a skipped sample between them, for different
\* marks and so different X and Z
C24_Witness ==
  \E k \in 2 .. Len(validProofs) :
    /\ validProofs[k].sampleNum > validProofs[k - 1].sampleNum + 1
    /\ validProofs[k].mark # validProofs[k - 1].mark
    /\ validProofs[k].linearPublic.Z # validProofs[k - 1].linearPublic.Z
    /\ validProofs[k].sigmoidPublic.Z = validProofs[k].linearPublic.Z

=============================================================================
